---- MODULE Spec2Model ----
(***************************************************************************)
(* Continuous-batching text generation: the Sequence / SequenceGroup state *)
(* machine of the continuous_batching library, and the LLMEngine loop.     *)
(***************************************************************************)
EXTENDS Integers, Sequences, FiniteSets, TLC

\* ---------------------------------------------------------------- bounds
\* longest prompt given to a request
MaxPromptLen == 2
\* the sampler finishes a sequence after this many generated tokens
MaxNewTokens == 2
\* most sequences a group reaches by forking
MaxSeqs == 2
\* token ids the sampler draws from are 1..MaxToken
MaxToken == 2
\* ticks explored for one group
MaxTicks == 4

\* ------------------------------------------------------- program constants
\* size_t arithmetic is modular; the modulus is scaled down from 2^64
SizeMod == 65536

RUNNING == "RUNNING"
FINISHED == "FINISHED"

Tokens == 1..MaxToken
\* the log-prob the sampler reports with a token (a negative integer, exact in float)
LogProbOf(token_id) == 0 - token_id

Max(a, b) == IF a >= b THEN a ELSE b
Min(a, b) == IF a <= b THEN a ELSE b
\* unsigned subtraction on size_t
USub(a, b) == (a - b + SizeMod) % SizeMod
\* unsigned addition on size_t
UAdd(a, b) == (a + b) % SizeMod

\* ------------------------------------------------- Sequence (library variant)
\* Sequence(GenerationStream::Ptr): fresh sequence, m_id taken from the static counter
Sequence_create(id) ==
    [id |-> id, parent_id |-> 0, generated_ids |-> <<>>,
     status |-> RUNNING, cumulative_log_prob |-> 0]

\* a copy that does not record where it was forked from
Sequence_fork_noparent(seq, id) ==
    [id |-> id, parent_id |-> 0, generated_ids |-> seq.generated_ids,
     status |-> seq.status, cumulative_log_prob |-> seq.cumulative_log_prob]

\* Sequence(const Sequence&, GenerationStream::Ptr): the copy made by fork
Sequence_fork(seq, id) ==
    [id |-> id, parent_id |-> seq.id, generated_ids |-> seq.generated_ids,
     status |-> seq.status, cumulative_log_prob |-> seq.cumulative_log_prob]

seq_has_finished(seq) == seq.status = FINISHED

seq_is_running(seq) == seq.status = RUNNING

set_status(seq, status) == [seq EXCEPT !.status = status]

append_token(seq, token_id, log_prob) ==
    [seq EXCEPT !.cumulative_log_prob = @ + log_prob,
                !.generated_ids = Append(@, token_id)]

get_generated_len(seq) == Len(seq.generated_ids)

\* reads m_generated_ids[size - 1]; only called with a non-empty vector
get_last_generation_output(seq) ==
    [seq_id |-> seq.id,
     parent_id |-> seq.parent_id,
     cumulative_log_prob |-> seq.cumulative_log_prob,
     token_id |-> seq.generated_ids[Len(seq.generated_ids)]]

\* erases the last count tokens; the cumulative log-prob is left as it is
remove_tokens(seq, count) ==
    [seq EXCEPT !.generated_ids = SubSeq(@, 1, Len(@) - count)]

\* -------------------------------------------- SequenceGroup (library variant)
\* SequenceGroup(request_id, input_ids, sampling_params, block_size)
SequenceGroup_create(request_id, input_ids, first_seq_id) ==
    [request_id |-> request_id,
     sequences |-> <<Sequence_create(first_seq_id)>>,
     prompt_ids |-> input_ids,
     num_processed_tokens |-> 0,
     num_scheduled_tokens |-> 0,
     max_content_len |-> 0]

get_prompt_len(g) == Len(g.prompt_ids)

can_generate_tokens(g) == g.max_content_len >= get_prompt_len(g)

num_total_seqs(g) == Len(g.sequences)

num_finished_seqs(g) ==
    Cardinality({i \in DOMAIN g.sequences : seq_has_finished(g.sequences[i])})

num_running_seqs(g) == num_total_seqs(g) - num_finished_seqs(g)

has_finished(g) == num_running_seqs(g) = 0

get_running_sequences(g) ==
    SelectSeq(g.sequences, LAMBDA s : seq_is_running(s))

\* a preemption that leaves the generated tokens of the sequences in place
preempt_tokens_notrim(g, num_preempt_tokens) ==
    [g EXCEPT !.num_processed_tokens = @ - num_preempt_tokens,
              !.max_content_len = USub(@, num_preempt_tokens)]

\* a preemption that rewinds num_processed_tokens and leaves max_content_len
preempt_tokens_keepmax(g, num_preempt_tokens) ==
    [g EXCEPT !.num_processed_tokens = @ - num_preempt_tokens,
              !.sequences = [i \in DOMAIN @ |->
                  remove_tokens(@[i], Min(num_preempt_tokens, get_generated_len(@[i])))]]

\* preempt_tokens(k); the caller holds k <= m_num_processed_tokens (asserted)
preempt_tokens(g, num_preempt_tokens) ==
    [g EXCEPT !.num_processed_tokens = @ - num_preempt_tokens,
              !.max_content_len = USub(@, num_preempt_tokens),
              !.sequences = [i \in DOMAIN @ |->
                  remove_tokens(@[i], Min(num_preempt_tokens, get_generated_len(@[i])))]]

get_context_len(g) == UAdd(g.num_processed_tokens, g.num_scheduled_tokens)

requires_sampling(g) == get_context_len(g) >= get_prompt_len(g)

schedule_tokens(g, num_tokens) == [g EXCEPT !.num_scheduled_tokens = num_tokens]

clear_scheduled_tokens(g) == [g EXCEPT !.num_scheduled_tokens = 0]

is_scheduled(g) == g.num_scheduled_tokens > 0

\* the same difference without the floor of one token
get_num_available_tokens_for_batching_nofloor(g) ==
    LET num_available_tokens == Max(get_prompt_len(g), g.max_content_len)
    IN  USub(num_available_tokens, g.num_processed_tokens)

get_num_available_tokens_for_batching(g) ==
    LET num_available_tokens == Max(get_prompt_len(g), g.max_content_len)
    IN  Max(USub(num_available_tokens, g.num_processed_tokens), 1)

\* an iteration end that leaves num_scheduled_tokens as it was
finish_iteration_noclear(g) ==
    LET processed == UAdd(g.num_processed_tokens, g.num_scheduled_tokens)
    IN  [g EXCEPT !.num_processed_tokens = processed,
                  !.max_content_len = Max(@, processed)]

\* an iteration end that takes the scheduled tokens as the new count
finish_iteration_restart(g) ==
    LET processed == g.num_scheduled_tokens
    IN  clear_scheduled_tokens(
            [g EXCEPT !.num_processed_tokens = processed,
                      !.max_content_len = Max(@, processed)])

\* an iteration end that does not lift max_content_len
finish_iteration_nolift(g) ==
    clear_scheduled_tokens(
        [g EXCEPT !.num_processed_tokens = UAdd(@, g.num_scheduled_tokens)])

finish_iteration(g) ==
    LET processed == UAdd(g.num_processed_tokens, g.num_scheduled_tokens)
    IN  clear_scheduled_tokens(
            [g EXCEPT !.num_processed_tokens = processed,
                      !.max_content_len = Max(@, processed)])

\* fork_sequence(sequence): the child is appended to m_sequences
fork_sequence(g, src, new_id) ==
    [g EXCEPT !.sequences = Append(@, Sequence_fork(@[src], new_id))]

\* the outputs notify_handle collects: one entry per sequence with generated_len > 0
notify_outputs(g) ==
    {get_last_generation_output(g.sequences[i]) :
        i \in {j \in DOMAIN g.sequences : get_generated_len(g.sequences[j]) > 0}}

\* ------------------------------------------------------------------ state
VARIABLES
    grp,          \* one SequenceGroup of the library, with its sequences
    m_counter,    \* the static counter of Sequence::_get_next_sequence_id
    stream,       \* what notify_handle pushed on the group's GenerationStream, in order
    gpc,          \* where the group is in the current tick
    to_sample,    \* indices of the sequences the sampler still has to serve in this tick
    preempted,    \* the group was preempted in the current tick
    fresh,        \* ids of the sequences that got a token since the last notify_handle
    ticks,        \* ticks completed
    op,           \* the last operation performed, with its argument
    m_requests,   \* LLMEngine::m_requests
    epc,          \* where the engine is inside step() or generate()
    in_generate,  \* step() is running on behalf of generate()
    currently_finished_requests,  \* the local of step()
    results,      \* the local of generate()
    returned,     \* what the last step() or generate() call returned
    steps,        \* step() calls made
    added,        \* add_request calls made
    block_table,  \* Block Manager: seq_id -> ordered list of block ids
    refcount,     \* Block Pool: block id -> reference count
    free_list,    \* Block Pool: the free blocks, most recently freed last
    block_copy_map,  \* the copy-on-write copies recorded in the current tick
    spc,          \* where the scheduler pipeline is in the current tick
    cursor,       \* the next position of the pass the scheduler is in
    m_output_queue,         \* GenerationStream: the iteration outputs not read yet
    m_generation_finished,  \* GenerationStream: finish() was called
    observed,     \* what the consumer has read from its handle, in order
    cpc           \* where the consumer is in its read loop

groupVars == <<grp, stream, gpc, to_sample, preempted, fresh, ticks>>

engineVars == <<m_requests, epc, in_generate, currently_finished_requests, results,
                returned, steps, added>>

schedVars == <<block_table, refcount, free_list, block_copy_map, spc, cursor>>

streamVars == <<m_output_queue, m_generation_finished, observed, cpc>>

vars == <<groupVars, engineVars, schedVars, streamVars, m_counter, op>>

\* no handle is read
StreamIdle ==
    /\ m_output_queue = <<>>
    /\ m_generation_finished = FALSE
    /\ observed = <<>>
    /\ cpc = "unused"

\* the scheduler and its block manager are not used
SchedIdle ==
    /\ block_table = <<>>
    /\ refcount = <<>>
    /\ free_list = <<>>
    /\ block_copy_map = <<>>
    /\ spc = "unused"
    /\ cursor = 0

\* the engine is not used while one group is studied
EngineIdle ==
    /\ m_requests = <<>>
    /\ epc = "unused"
    /\ in_generate = FALSE
    /\ currently_finished_requests = <<>>
    /\ results = <<>>
    /\ returned = <<>>
    /\ steps = 0
    /\ added = 0

\* the prompt of length n
PromptOfLen(n) == [i \in 1..n |-> 10 + i]

\* ------------------------------------------- one library group, tick by tick
InitGroup ==
    /\ \E n \in 1..MaxPromptLen : grp = SequenceGroup_create(0, PromptOfLen(n), 1)
    /\ m_counter = 2
    /\ stream = <<>>
    /\ gpc = "schedule"
    /\ to_sample = {}
    /\ preempted = FALSE
    /\ fresh = {}
    /\ ticks = 0
    /\ op = [name |-> "create", arg |-> 0]
    /\ EngineIdle
    /\ SchedIdle
    /\ StreamIdle

RunningIndices(g) == {i \in DOMAIN g.sequences : seq_is_running(g.sequences[i])}

\* the scheduler evicts k processed tokens of the group (k <= num_processed_tokens)
G_Preempt(k) ==
    /\ gpc = "schedule"
    /\ ticks < MaxTicks
    /\ ~preempted
    /\ ~has_finished(grp)
    /\ k <= grp.num_processed_tokens
    /\ grp' = preempt_tokens(grp, k)
    /\ preempted' = TRUE
    /\ op' = [name |-> "preempt_tokens", arg |-> k]
    /\ UNCHANGED <<m_counter, stream, gpc, to_sample, fresh, ticks, engineVars, schedVars, streamVars>>

\* the scheduler plans n tokens for the group in this tick
G_Schedule(n) ==
    /\ gpc = "schedule"
    /\ ticks < MaxTicks
    /\ ~has_finished(grp)
    /\ n <= get_num_available_tokens_for_batching(grp)
    /\ grp' = schedule_tokens(grp, n)
    /\ to_sample' = IF requires_sampling(grp') THEN RunningIndices(grp') ELSE {}
    /\ gpc' = "sample"
    /\ op' = [name |-> "schedule_tokens", arg |-> n]
    /\ UNCHANGED <<m_counter, stream, preempted, fresh, ticks, engineVars, schedVars, streamVars>>

\* the group gets nothing in this tick
G_NotScheduled ==
    /\ gpc = "schedule"
    /\ ticks < MaxTicks
    /\ ~has_finished(grp)
    /\ grp' = clear_scheduled_tokens(grp)
    /\ to_sample' = {}
    /\ gpc' = "sample"
    /\ op' = [name |-> "clear_scheduled_tokens", arg |-> 0]
    /\ UNCHANGED <<m_counter, stream, preempted, fresh, ticks, engineVars, schedVars, streamVars>>

\* the sampler forks sequence i; the child is sampled in this tick too
G_Fork(i) ==
    /\ gpc = "sample"
    /\ i \in to_sample
    /\ num_total_seqs(grp) < MaxSeqs
    /\ grp' = fork_sequence(grp, i, m_counter)
    /\ m_counter' = m_counter + 1
    /\ to_sample' = to_sample \cup {num_total_seqs(grp')}
    /\ op' = [name |-> "fork_sequence", arg |-> i]
    /\ UNCHANGED <<stream, gpc, preempted, fresh, ticks, engineVars, schedVars, streamVars>>

\* the sampler gives sequence i its next token and decides whether it ends
G_Sample(i, token_id, fin) ==
    /\ gpc = "sample"
    /\ i \in to_sample
    /\ LET appended == append_token(grp.sequences[i], token_id, LogProbOf(token_id))
           done == fin \/ get_generated_len(appended) >= MaxNewTokens
       IN  grp' = [grp EXCEPT !.sequences[i] =
                      IF done THEN set_status(appended, FINISHED) ELSE appended]
    /\ to_sample' = to_sample \ {i}
    /\ fresh' = fresh \cup {grp.sequences[i].id}
    /\ op' = [name |-> "append_token", arg |-> i]
    /\ UNCHANGED <<m_counter, stream, gpc, preempted, ticks, engineVars, schedVars, streamVars>>

G_FinishIteration ==
    /\ gpc = "sample"
    /\ to_sample = {}
    /\ grp' = finish_iteration(grp)
    /\ gpc' = "notify"
    /\ op' = [name |-> "finish_iteration", arg |-> 0]
    /\ UNCHANGED <<m_counter, stream, to_sample, preempted, fresh, ticks, engineVars, schedVars, streamVars>>

\* notify_handle: push the collected outputs unless there are none
G_NotifyHandle ==
    /\ gpc = "notify"
    /\ stream' = IF notify_outputs(grp) # {} THEN Append(stream, notify_outputs(grp)) ELSE stream
    /\ gpc' = "schedule"
    /\ preempted' = FALSE
    /\ fresh' = {}
    /\ ticks' = ticks + 1
    /\ op' = [name |-> "notify_handle", arg |-> 0]
    /\ UNCHANGED <<grp, m_counter, to_sample, engineVars, schedVars, streamVars>>

NextGroup ==
    \/ \E k \in 1..(MaxPromptLen + MaxNewTokens) : G_Preempt(k)
    \/ \E n \in 1..MaxPromptLen : G_Schedule(n)
    \/ G_NotScheduled
    \/ \E i \in 1..MaxSeqs : G_Fork(i)
    \/ \E i \in 1..MaxSeqs, token_id \in Tokens, fin \in BOOLEAN : G_Sample(i, token_id, fin)
    \/ G_FinishIteration
    \/ G_NotifyHandle

SpecGroup == InitGroup /\ [][NextGroup]_vars

\* the tokens pushed for sequence id on the stream, in push order
RECURSIVE StreamTokens(_, _)
StreamTokens(st, id) ==
    IF st = <<>> THEN <<>>
    ELSE LET hit == {o \in Head(st) : o.seq_id = id}
         IN  (IF hit = {} THEN <<>> ELSE <<(CHOOSE o \in hit : TRUE).token_id>>)
             \o StreamTokens(Tail(st), id)

IsSuffix(s, t) ==
    /\ Len(s) <= Len(t)
    /\ SubSeq(t, Len(t) - Len(s) + 1, Len(t)) = s

\* ------------------------------------- the same group under arbitrary calls
\* most tokens a caller plans in one schedule_tokens call
MaxSched == 2
\* calls stop once a group has processed this many tokens
MaxContext == 4
\* append_token is not called once a cumulative log-prob has fallen this far below 0
MaxLogProbDebt == 4

InitCalls ==
    /\ \E n \in 0..MaxPromptLen : grp = SequenceGroup_create(0, PromptOfLen(n), 1)
    /\ m_counter = 2
    /\ stream = <<>>
    /\ gpc = "calls"
    /\ to_sample = {}
    /\ preempted = FALSE
    /\ fresh = {}
    /\ ticks = 0
    /\ op = [name |-> "create", arg |-> 0]
    /\ EngineIdle
    /\ SchedIdle
    /\ StreamIdle

K_schedule_tokens(n) ==
    /\ grp.num_processed_tokens + n <= MaxContext
    /\ grp' = schedule_tokens(grp, n)
    /\ op' = [name |-> "schedule_tokens", arg |-> n]
    /\ UNCHANGED <<m_counter, stream, gpc, to_sample, preempted, fresh, ticks, engineVars, schedVars, streamVars>>

K_clear_scheduled_tokens ==
    /\ grp' = clear_scheduled_tokens(grp)
    /\ op' = [name |-> "clear_scheduled_tokens", arg |-> 0]
    /\ UNCHANGED <<m_counter, stream, gpc, to_sample, preempted, fresh, ticks, engineVars, schedVars, streamVars>>

K_finish_iteration ==
    /\ grp' = finish_iteration(grp)
    /\ op' = [name |-> "finish_iteration", arg |-> 0]
    /\ UNCHANGED <<m_counter, stream, gpc, to_sample, preempted, fresh, ticks, engineVars, schedVars, streamVars>>

\* OPENVINO_ASSERT(num_preempt_tokens <= m_num_processed_tokens) throws before any change
K_preempt_tokens(k) ==
    /\ IF k <= grp.num_processed_tokens
       THEN grp' = preempt_tokens(grp, k) /\ op' = [name |-> "preempt_tokens", arg |-> k]
       ELSE grp' = grp /\ op' = [name |-> "preempt_tokens throws", arg |-> k]
    /\ UNCHANGED <<m_counter, stream, gpc, to_sample, preempted, fresh, ticks, engineVars, schedVars, streamVars>>

K_append_token(i, token_id) ==
    /\ i \in DOMAIN grp.sequences
    /\ get_generated_len(grp.sequences[i]) < MaxNewTokens
    /\ grp.sequences[i].cumulative_log_prob > 0 - MaxLogProbDebt
    /\ grp' = [grp EXCEPT !.sequences[i] = append_token(@, token_id, LogProbOf(token_id))]
    /\ op' = [name |-> "append_token", arg |-> i]
    /\ UNCHANGED <<m_counter, stream, gpc, to_sample, preempted, fresh, ticks, engineVars, schedVars, streamVars>>

K_set_status(i, status) ==
    /\ i \in DOMAIN grp.sequences
    /\ grp' = [grp EXCEPT !.sequences[i] = set_status(@, status)]
    /\ op' = [name |-> "set_status", arg |-> i]
    /\ UNCHANGED <<m_counter, stream, gpc, to_sample, preempted, fresh, ticks, engineVars, schedVars, streamVars>>

NextCalls ==
    \/ \E n \in 0..MaxSched : K_schedule_tokens(n)
    \/ K_clear_scheduled_tokens
    \/ K_finish_iteration
    \/ \E k \in 0..(MaxContext + 1) : K_preempt_tokens(k)
    \/ \E token_id \in Tokens : K_append_token(1, token_id)
    \/ \E status \in {RUNNING, FINISHED} : K_set_status(1, status)

SpecCalls == InitCalls /\ [][NextCalls]_vars

\* ------------------------------- the sequences of a group under arbitrary calls
\* append_token is not called once the sequences of the group hold this many tokens
MaxGroupTokens == 4

GroupTokens(g) ==
    LET RECURSIVE Sum(_)
        Sum(n) == IF n = 0 THEN 0 ELSE get_generated_len(g.sequences[n]) + Sum(n - 1)
    IN  Sum(Len(g.sequences))

\* the sampler's calls on the sequences of one group, in any order
S_append_token(i, token_id) ==
    /\ i \in DOMAIN grp.sequences
    /\ get_generated_len(grp.sequences[i]) < MaxNewTokens
    /\ GroupTokens(grp) < MaxGroupTokens
    /\ grp' = [grp EXCEPT !.sequences[i] = append_token(@, token_id, LogProbOf(token_id))]
    /\ op' = [name |-> "append_token", arg |-> i]
    /\ UNCHANGED <<m_counter, stream, gpc, to_sample, preempted, fresh, ticks, engineVars, schedVars, streamVars>>

S_set_status(i, status) ==
    /\ i \in DOMAIN grp.sequences
    /\ grp.sequences[i].status # status
    /\ grp' = [grp EXCEPT !.sequences[i] = set_status(@, status)]
    /\ op' = [name |-> "set_status", arg |-> i]
    /\ UNCHANGED <<m_counter, stream, gpc, to_sample, preempted, fresh, ticks, engineVars, schedVars, streamVars>>

S_fork_sequence(i) ==
    /\ i \in DOMAIN grp.sequences
    /\ num_total_seqs(grp) < MaxSeqs
    /\ GroupTokens(grp) + get_generated_len(grp.sequences[i]) <= MaxGroupTokens
    /\ grp' = fork_sequence(grp, i, m_counter)
    /\ m_counter' = m_counter + 1
    /\ op' = [name |-> "fork_sequence", arg |-> i]
    /\ UNCHANGED <<stream, gpc, to_sample, preempted, fresh, ticks, engineVars, schedVars, streamVars>>

NextSeqs ==
    \/ \E i \in 1..MaxSeqs, token_id \in Tokens : S_append_token(i, token_id)
    \/ \E i \in 1..MaxSeqs : S_set_status(i, FINISHED)
    \/ \E i \in 1..MaxSeqs : S_fork_sequence(i)

SpecSeqs == InitCalls /\ [][NextSeqs]_vars

\* ---------------------------------------------------------------- LLMEngine
\* add_request calls explored
MaxRequests == 3
\* direct step() calls explored (the steps of generate are not counted)
MaxSteps == 4
\* SchedulerConfig::max_num_batched_tokens of the explored configuration
max_num_batched_tokens == 2
\* SchedulerConfig::max_num_seqs of the explored configuration
max_num_seqs == 2

WAITING == "WAITING"

\* a counter that m_counter++ leaves as it was
get_next_sequence_id_stuck(counter) == counter

\* _get_next_sequence_id() of the engine's sequence_group.hpp returns the static
\* m_counter, which starts at 0, and increments it: the counter after the call
get_next_sequence_id(counter) == counter + 1

RECURSIVE counter_after(_, _)
\* the static counter after n sequences were created
counter_after(counter, n) ==
    IF n = 0 THEN counter ELSE counter_after(get_next_sequence_id(counter), n - 1)

\* the ids of the sequences held by the groups of a request list
SequenceIds(reqs) ==
    UNION {{reqs[i].sequences[j].id : j \in DOMAIN reqs[i].sequences} : i \in DOMAIN reqs}

\* Sequence{} of the engine's sequence_group.hpp: no parent field, status WAITING
Sequence_cb(id) ==
    [id |-> id, generated_ids |-> <<>>, status |-> WAITING, cumulative_log_prob |-> 0]

\* SequenceGroup(request_id, input_ids, sampling_params) of the engine's
\* sequence_group.hpp: adds one Sequence{} and does not touch m_prompt_ids
SequenceGroup_cb(request_id, input_ids, first_seq_id) ==
    [request_id |-> request_id,
     sequences |-> <<Sequence_cb(first_seq_id)>>,
     prompt_ids |-> <<>>,
     num_processed_tokens |-> 0,
     num_scheduled_tokens |-> 0,
     max_content_len |-> 0]

from_sequence_group(g) ==
    [m_request_id |-> g.request_id,
     m_generation_ids |-> [i \in 1..num_finished_seqs(g) |-> g.sequences[i].generated_ids],
     m_cumulative_logprob |-> 0]

\* a has_unfinished_requests that never sees an unfinished group
has_unfinished_requests_none(reqs) == FALSE

has_unfinished_requests(reqs) ==
    \E i \in DOMAIN reqs : ~has_finished(reqs[i])

\* what a group holds after it was the source of the implicit move assignment:
\* the scalars are copied, and the std::vector move assignment (std::allocator,
\* noexcept) takes the buffer of m_sequences and leaves the source empty
MovedFrom(g) == {[g EXCEPT !.sequences = <<>>]}

RECURSIVE RemoveIfTail(_, _)
\* the elements std::remove_if leaves at positions j..size: a finished group is
\* not touched, an unfinished one was moved to the front
RemoveIfTail(reqs, j) ==
    IF j > Len(reqs) THEN {<<>>}
    ELSE {<<h>> \o t :
            h \in (IF has_finished(reqs[j]) THEN {reqs[j]} ELSE MovedFrom(reqs[j])),
            t \in RemoveIfTail(reqs, j + 1)}

\* _free_finished_groups: std::remove_if whose result is dropped; the vector keeps
\* its size, the unfinished groups come first in their order
free_finished_groups(reqs) ==
    LET kept == SelectSeq(reqs, LAMBDA g : ~has_finished(g))
    IN  {kept \o t : t \in RemoveIfTail(reqs, Len(kept) + 1)}

RECURSIVE InsertSorted(_, _)
InsertSorted(r, sorted) ==
    IF sorted = <<>> THEN <<r>>
    ELSE IF r.m_request_id < Head(sorted).m_request_id
         THEN <<r>> \o sorted
         ELSE <<Head(sorted)>> \o InsertSorted(r, Tail(sorted))

RECURSIVE SortByRequestId(_)
SortByRequestId(rs) ==
    IF rs = <<>> THEN <<>>
    ELSE InsertSorted(rs[Len(rs)], SortByRequestId(SubSeq(rs, 1, Len(rs) - 1)))

Reverse(rs) == [i \in 1..Len(rs) |-> rs[Len(rs) + 1 - i]]

\* a generate that returns the results in the order the ticks produced them
generate_sort_none(rs) == {rs}

\* the std::sort at the end of generate: ascending m_request_id, the order of
\* results with equal ids is not determined
generate_sort(rs) == {SortByRequestId(rs), SortByRequestId(Reverse(rs))}

RECURSIVE schedule_pass(_, _, _, _, _)
\* the scheduler's walk over the groups in list order: a group gets
\* min(available, budget left) tokens; an admission also needs room under max_num_seqs
schedule_pass(reqs, order, used_tokens, used_seqs, admitting) ==
    IF order = <<>> THEN reqs
    ELSE LET i == Head(order)
             g == reqs[i]
             want == Min(get_num_available_tokens_for_batching(g),
                         max_num_batched_tokens - used_tokens)
             fits == /\ want > 0
                     /\ (admitting => used_seqs + num_running_seqs(g) <= max_num_seqs)
         IN  IF fits
             THEN schedule_pass([reqs EXCEPT ![i] = schedule_tokens(g, want)], Tail(order),
                                used_tokens + want, used_seqs + num_running_seqs(g), admitting)
             ELSE schedule_pass(reqs, Tail(order), used_tokens, used_seqs, admitting)

RECURSIVE IndexSeq(_, _)
\* the indices in 1..n that are in set S, ascending
IndexSeq(S, n) ==
    IF n = 0 THEN <<>>
    ELSE IF n \in S THEN Append(IndexSeq(S, n - 1), n) ELSE IndexSeq(S, n - 1)

ScheduledTokens(reqs) ==
    LET RECURSIVE Sum(_)
        Sum(n) == IF n = 0 THEN 0 ELSE reqs[n].num_scheduled_tokens + Sum(n - 1)
    IN  Sum(Len(reqs))

ScheduledSeqs(reqs) ==
    LET RECURSIVE Sum(_)
        Sum(n) == IF n = 0 THEN 0
                  ELSE (IF is_scheduled(reqs[n]) THEN num_running_seqs(reqs[n]) ELSE 0) + Sum(n - 1)
    IN  Sum(Len(reqs))

\* Scheduler::schedule with blocks to spare: the running pass, then the waiting pass
schedule(reqs) ==
    LET live == {i \in DOMAIN reqs : ~has_finished(reqs[i])}
        running == IndexSeq({i \in live : reqs[i].max_content_len > 0}, Len(reqs))
        waiting == IndexSeq({i \in live : reqs[i].max_content_len = 0}, Len(reqs))
        cleared == [i \in DOMAIN reqs |-> clear_scheduled_tokens(reqs[i])]
        after_running == schedule_pass(cleared, running, 0, 0, FALSE)
    IN  schedule_pass(after_running, waiting,
                      ScheduledTokens(after_running), ScheduledSeqs(after_running), TRUE)

\* the token the mock model yields for a sequence of group g
MockToken(g, seq) == ((g.request_id + get_generated_len(seq)) % MaxToken) + 1

\* Sampler::decode on one group: a scheduled group that requires sampling gets one
\* token on each running sequence, which ends on the sampler's decision or at
\* MaxNewTokens; the iteration of a scheduled group is then finished
decode_group(g, fin) ==
    IF ~is_scheduled(g) THEN g
    ELSE LET sampled ==
                 IF ~requires_sampling(g) THEN g
                 ELSE [g EXCEPT !.sequences = [i \in DOMAIN @ |->
                          IF seq_has_finished(@[i]) THEN @[i]
                          ELSE LET token_id == MockToken(g, @[i])
                                   a == append_token(@[i], token_id, LogProbOf(token_id))
                               IN  IF fin \/ get_generated_len(a) >= MaxNewTokens
                                   THEN set_status(a, FINISHED) ELSE a]]
         IN  finish_iteration(sampled)

InitEngine ==
    /\ m_requests = <<>>
    /\ epc = "idle"
    /\ in_generate = FALSE
    /\ currently_finished_requests = <<>>
    /\ results = <<>>
    /\ returned = <<>>
    /\ steps = 0
    /\ added = 0
    /\ m_counter = 0
    /\ op = [name |-> "LLMEngine", arg |-> 0]
    /\ grp = SequenceGroup_create(0, <<>>, 0)
    /\ stream = <<>>
    /\ gpc = "unused"
    /\ to_sample = {}
    /\ preempted = FALSE
    /\ fresh = {}
    /\ ticks = 0
    /\ SchedIdle
    /\ StreamIdle

\* add_request(request_id, input_ids, sampling_params)
E_add_request(request_id, input_ids) ==
    /\ epc = "idle"
    /\ added < MaxRequests
    /\ m_requests' = Append(m_requests, SequenceGroup_cb(request_id, input_ids, m_counter))
    /\ m_counter' = get_next_sequence_id(m_counter)
    /\ added' = added + 1
    /\ op' = [name |-> "add_request", arg |-> input_ids]
    /\ UNCHANGED <<epc, in_generate, currently_finished_requests, results, returned, steps,
                   groupVars, schedVars, streamVars>>

\* a direct call of step()
E_step_call ==
    /\ epc = "idle"
    /\ steps < MaxSteps
    /\ m_requests # <<>>
    /\ epc' = "schedule"
    /\ steps' = steps + 1
    /\ op' = [name |-> "step", arg |-> 0]
    /\ UNCHANGED <<m_requests, in_generate, currently_finished_requests, results, returned,
                   added, m_counter, groupVars, schedVars, streamVars>>

\* a step() that goes from scheduling straight to the model step
E_schedule_no_copy ==
    /\ epc = "schedule"
    /\ m_requests' = schedule(m_requests)
    /\ epc' = "model_step"
    /\ op' = [name |-> "schedule", arg |-> 0]
    /\ UNCHANGED <<in_generate, currently_finished_requests, results, returned, steps,
                   added, m_counter, groupVars, schedVars, streamVars>>

E_schedule ==
    /\ epc = "schedule"
    /\ m_requests' = schedule(m_requests)
    /\ epc' = "copy_blocks"
    /\ op' = [name |-> "schedule", arg |-> 0]
    /\ UNCHANGED <<in_generate, currently_finished_requests, results, returned, steps,
                   added, m_counter, groupVars, schedVars, streamVars>>

\* copy_blocks and the model step work on the cache and the logits only
E_copy_blocks ==
    /\ epc = "copy_blocks"
    /\ epc' = "model_step"
    /\ op' = [name |-> "copy_blocks", arg |-> 0]
    /\ UNCHANGED <<m_requests, in_generate, currently_finished_requests, results, returned,
                   steps, added, m_counter, groupVars, schedVars, streamVars>>

E_model_step ==
    /\ epc = "model_step"
    /\ epc' = "decode"
    /\ op' = [name |-> "model_step", arg |-> 0]
    /\ UNCHANGED <<m_requests, in_generate, currently_finished_requests, results, returned,
                   steps, added, m_counter, groupVars, schedVars, streamVars>>

E_decode ==
    /\ epc = "decode"
    /\ \E fin \in [DOMAIN m_requests -> BOOLEAN] :
          m_requests' = [i \in DOMAIN m_requests |-> decode_group(m_requests[i], fin[i])]
    /\ epc' = "collect"
    /\ op' = [name |-> "decode", arg |-> 0]
    /\ UNCHANGED <<in_generate, currently_finished_requests, results, returned, steps,
                   added, m_counter, groupVars, schedVars, streamVars>>

\* the loop of step() over m_requests that fills currently_finished_requests
E_collect ==
    /\ epc = "collect"
    /\ currently_finished_requests' =
          LET fin == SelectSeq(m_requests, LAMBDA g : has_finished(g))
          IN  [i \in DOMAIN fin |-> from_sequence_group(fin[i])]
    /\ epc' = "free"
    /\ op' = [name |-> "collect", arg |-> 0]
    /\ UNCHANGED <<m_requests, in_generate, results, returned, steps, added, m_counter,
                   groupVars, schedVars, streamVars>>

E_free_finished_groups ==
    /\ epc = "free"
    /\ m_requests' \in free_finished_groups(m_requests)
    /\ epc' = "return"
    /\ op' = [name |-> "_free_finished_groups", arg |-> 0]
    /\ UNCHANGED <<in_generate, currently_finished_requests, results, returned, steps,
                   added, m_counter, groupVars, schedVars, streamVars>>

\* step() returns; inside generate the partial results are appended to results
E_step_return ==
    /\ epc = "return"
    /\ returned' = currently_finished_requests
    /\ results' = IF in_generate THEN results \o currently_finished_requests ELSE results
    /\ epc' = IF in_generate THEN "generate_loop" ELSE "idle"
    /\ op' = [name |-> "step returns", arg |-> 0]
    /\ UNCHANGED <<m_requests, in_generate, currently_finished_requests, steps, added,
                   m_counter, groupVars, schedVars, streamVars>>

RECURSIVE add_requests(_, _, _, _)
\* the first loop of generate: add_request(request_id, prompts[request_id], ...)
add_requests(reqs, request_id, prompts, counter) ==
    IF request_id >= Len(prompts) THEN reqs
    ELSE add_requests(
            Append(reqs, SequenceGroup_cb(request_id, prompts[request_id + 1], counter)),
            request_id + 1, prompts, get_next_sequence_id(counter))

\* generate(prompts, sampling_params) up to its while loop
E_generate_call(prompts) ==
    /\ epc = "idle"
    /\ added + Len(prompts) <= MaxRequests
    /\ m_requests' = add_requests(m_requests, 0, prompts, m_counter)
    /\ m_counter' = counter_after(m_counter, Len(prompts))
    /\ added' = added + Len(prompts)
    /\ results' = <<>>
    /\ in_generate' = TRUE
    /\ epc' = "generate_loop"
    /\ op' = [name |-> "generate", arg |-> prompts]
    /\ UNCHANGED <<currently_finished_requests, returned, steps, groupVars, schedVars, streamVars>>

\* while (has_unfinished_requests()) step()
E_generate_step ==
    /\ epc = "generate_loop"
    /\ has_unfinished_requests(m_requests)
    /\ epc' = "schedule"
    /\ op' = [name |-> "step", arg |-> 0]
    /\ UNCHANGED <<m_requests, in_generate, currently_finished_requests, results, returned,
                   steps, added, m_counter, groupVars, schedVars, streamVars>>

\* the loop has ended: sort and return
E_generate_return ==
    /\ epc = "generate_loop"
    /\ ~has_unfinished_requests(m_requests)
    /\ returned' \in generate_sort(results)
    /\ in_generate' = FALSE
    /\ epc' = "idle"
    /\ op' = [name |-> "generate returns", arg |-> 0]
    /\ UNCHANGED <<m_requests, currently_finished_requests, results, steps, added,
                   m_counter, groupVars, schedVars, streamVars>>

\* the prompt lists generate is called with
PromptLists ==
    {<<PromptOfLen(1)>>, <<PromptOfLen(2), PromptOfLen(1)>>,
     <<PromptOfLen(1), PromptOfLen(2), PromptOfLen(1)>>}

NextEngine ==
    \/ \E request_id \in 0..1, n \in 1..MaxPromptLen : E_add_request(request_id, PromptOfLen(n))
    \/ E_step_call
    \/ E_schedule
    \/ E_copy_blocks
    \/ E_model_step
    \/ E_decode
    \/ E_collect
    \/ E_free_finished_groups
    \/ E_step_return
    \/ \E prompts \in PromptLists : E_generate_call(prompts)
    \/ E_generate_step
    \/ E_generate_return

SpecEngine == InitEngine /\ [][NextEngine]_vars

\* the positions of the engine thread inside step() and generate()
EnginePositions ==
    {"schedule", "copy_blocks", "model_step", "decode", "collect", "free", "return",
     "generate_loop"}

\* the engine thread goes on from a position inside a call: at each of them the
\* step of that position is the only one enabled (at "generate_loop" the next
\* step() or the return), and it moves epc
EngineThread ==
    /\ epc \in EnginePositions
    /\ epc' \in (EnginePositions \cup {"idle"}) \ {epc}

\* the engine whose thread is not stopped inside a call
SpecEngineLive == InitEngine /\ [][NextEngine]_vars /\ WF_epc(EngineThread)

\* --------------------------- one group of the engine and the result made of it
\* get_beam_search_scope() of the engine's Sequence
get_beam_search_scope(seq) == seq.cumulative_log_prob

InitResult ==
    /\ grp = SequenceGroup_cb(0, PromptOfLen(1), 0)
    /\ m_counter = get_next_sequence_id(0)
    /\ stream = <<>>
    /\ gpc = "result"
    /\ to_sample = {}
    /\ preempted = FALSE
    /\ fresh = {}
    /\ ticks = 0
    /\ op = [name |-> "create", arg |-> 0]
    /\ EngineIdle
    /\ SchedIdle
    /\ StreamIdle

\* add_sequence(Sequence{})
R_add_sequence ==
    /\ num_total_seqs(grp) < MaxSeqs
    /\ grp' = [grp EXCEPT !.sequences = Append(@, Sequence_cb(m_counter))]
    /\ m_counter' = get_next_sequence_id(m_counter)
    /\ op' = [name |-> "add_sequence", arg |-> m_counter]
    /\ UNCHANGED <<stream, gpc, to_sample, preempted, fresh, ticks, engineVars, schedVars, streamVars>>

\* the sampler appends a token to a sequence that has not finished
R_append_token(i, token_id) ==
    /\ i \in DOMAIN grp.sequences
    /\ ~seq_has_finished(grp.sequences[i])
    /\ get_generated_len(grp.sequences[i]) < MaxNewTokens
    /\ grp' = [grp EXCEPT !.sequences[i] = append_token(@, token_id, LogProbOf(token_id))]
    /\ op' = [name |-> "append_token", arg |-> i]
    /\ UNCHANGED <<m_counter, stream, gpc, to_sample, preempted, fresh, ticks, engineVars, schedVars, streamVars>>

\* the sampler ends a sequence
R_set_status(i) ==
    /\ i \in DOMAIN grp.sequences
    /\ ~seq_has_finished(grp.sequences[i])
    /\ grp' = [grp EXCEPT !.sequences[i] = set_status(@, FINISHED)]
    /\ op' = [name |-> "set_status", arg |-> i]
    /\ UNCHANGED <<m_counter, stream, gpc, to_sample, preempted, fresh, ticks, engineVars, schedVars, streamVars>>

\* the body of the loop of step(): a finished group gives a GenerationResult
R_from_sequence_group ==
    /\ has_finished(grp)
    /\ currently_finished_requests' = <<from_sequence_group(grp)>>
    /\ op' = [name |-> "from_sequence_group", arg |-> 0]
    /\ UNCHANGED <<m_requests, epc, in_generate, results, returned, steps, added,
                   m_counter, groupVars, schedVars, streamVars>>

NextResult ==
    \/ R_add_sequence
    \/ \E i \in 1..MaxSeqs, token_id \in Tokens : R_append_token(i, token_id)
    \/ \E i \in 1..MaxSeqs : R_set_status(i)
    \/ R_from_sequence_group

SpecResult == InitResult /\ [][NextResult]_vars

\* ------------------------------------------ Block Pool and Block Manager
\* blocks in the pool (num_kv_blocks)
NumBlocks == 5
\* token slots in one block (block_size)
BlockSize == 2
\* requests given to the scheduler pipeline
MaxGroups == 3
\* ticks of the scheduler pipeline
MaxSchedTicks == 4
\* the sampler of the scheduler pipeline ends a sequence at this many tokens
MaxSchedTokens == 3
\* SchedulerConfig::max_num_batched_tokens the pipeline's scheduler is built with
pipeline_max_num_batched_tokens == 3
\* SchedulerConfig::max_num_seqs the pipeline's scheduler is built with
pipeline_max_num_seqs == 3

Blocks == 0..(NumBlocks - 1)

\* the block manager state: block_table, and the pool's refcount and free list,
\* with the copy-on-write copies recorded so far
BlockManager_create ==
    [block_table |-> <<>>,
     refcount |-> [b \in Blocks |-> 0],
     free_list |-> [i \in 1..NumBlocks |-> NumBlocks - i],
     copies |-> <<>>]

free_count(bm) == Len(bm.free_list)

\* the block allocate() hands out: the most recently freed one
next_free(bm) == bm.free_list[Len(bm.free_list)]

\* allocate(): pops the free list; the caller holds free_count > 0
allocate(bm) ==
    [bm EXCEPT !.free_list = SubSeq(@, 1, Len(@) - 1),
               !.refcount[next_free(bm)] = 1]

retain(bm, id) == [bm EXCEPT !.refcount[id] = @ + 1]

\* release(id): decrements, and frees to the free list on reaching zero
release(bm, id) ==
    [bm EXCEPT !.refcount[id] = @ - 1,
               !.free_list = IF bm.refcount[id] = 1 THEN Append(@, id) ELSE @]

get_block_table(bm, seq_id) ==
    IF seq_id \in DOMAIN bm.block_table THEN bm.block_table[seq_id] ELSE <<>>

set_block_table(bm, seq_id, table) ==
    [bm EXCEPT !.block_table = (seq_id :> table) @@ @]

\* blocks that hold n tokens
num_blocks_for(n) == (n + BlockSize - 1) \div BlockSize

\* the last block of the sequence is shared and a new token would be written into it
needs_copy_on_write(bm, seq_id, context_len, n_new_tokens) ==
    LET table == get_block_table(bm, seq_id)
    IN  /\ Len(table) > 0
        /\ n_new_tokens > 0
        /\ context_len % BlockSize # 0
        /\ bm.refcount[table[Len(table)]] > 1

RECURSIVE grow_block_table(_, _, _)
\* allocates count new blocks at the end of the sequence's list
grow_block_table(bm, seq_id, count) ==
    IF count <= 0 THEN bm
    ELSE grow_block_table(
             set_block_table(allocate(bm), seq_id,
                             Append(get_block_table(bm, seq_id), next_free(bm))),
             seq_id, count - 1)

\* append_slot(seq, n_new_tokens) on a sequence holding context_len tokens
append_slot(bm, seq_id, context_len, n_new_tokens) ==
    LET table == get_block_table(bm, seq_id)
        last == table[Len(table)]
        copied ==
            IF needs_copy_on_write(bm, seq_id, context_len, n_new_tokens)
            THEN release(
                     [set_block_table(allocate(bm), seq_id,
                                      [table EXCEPT ![Len(table)] = next_free(bm)])
                         EXCEPT !.copies = Append(@, [src |-> last, dst |-> next_free(bm)])],
                     last)
            ELSE bm
    IN  grow_block_table(copied, seq_id,
                         num_blocks_for(context_len + n_new_tokens) - Len(table))

\* a fork that shares the parent's blocks without retaining them
fork_noretain(bm, parent_seq, child_seq) ==
    set_block_table(bm, child_seq, get_block_table(bm, parent_seq))

\* fork(parent_seq, child_seq): the child gets the parent's list, each block retained
fork(bm, parent_seq, child_seq) ==
    LET table == get_block_table(bm, parent_seq)
        RECURSIVE retain_all(_, _)
        retain_all(b, n) == IF n = 0 THEN b ELSE retain_all(retain(b, table[n]), n - 1)
    IN  set_block_table(retain_all(bm, Len(table)), child_seq, table)

\* free(seq): releases every block of the sequence's list and drops the entry
free(bm, seq_id) ==
    LET table == get_block_table(bm, seq_id)
        RECURSIVE release_all(_, _)
        release_all(b, n) == IF n = 0 THEN b ELSE release_all(release(b, table[n]), n - 1)
        released == release_all(bm, Len(table))
    IN  [released EXCEPT !.block_table =
            [s \in (DOMAIN @) \ {seq_id} |-> @[s]]]

\* free(seq) on each sequence of the group
free_group(bm, g) ==
    LET RECURSIVE free_from(_, _)
        free_from(b, n) ==
            IF n = 0 THEN b ELSE free_from(free(b, g.sequences[n].id), n - 1)
    IN  free_from(bm, Len(g.sequences))

\* can_append(group, tokens_to_add): the new blocks the running sequences would
\* need, a shared tail about to be written counting once per running sibling
can_append(bm, g, tokens_to_add) ==
    LET context_len == g.num_processed_tokens
        needed(seq_id) ==
            (IF needs_copy_on_write(bm, seq_id, context_len, tokens_to_add) THEN 1 ELSE 0)
            + Max(0, num_blocks_for(context_len + tokens_to_add)
                     - Len(get_block_table(bm, seq_id)))
        RECURSIVE Sum(_)
        Sum(n) == IF n = 0 THEN 0
                  ELSE (IF seq_is_running(g.sequences[n])
                        THEN needed(g.sequences[n].id) ELSE 0) + Sum(n - 1)
    IN  Sum(Len(g.sequences)) <= free_count(bm)

\* append_slot on each running sequence of a group that is given tokens_to_add
append_slots(bm, g, tokens_to_add) ==
    LET RECURSIVE append_from(_, _)
        append_from(b, n) ==
            IF n = 0 THEN b
            ELSE LET before == append_from(b, n - 1)
                 IN  IF seq_is_running(g.sequences[n])
                     THEN append_slot(before, g.sequences[n].id,
                                      g.num_processed_tokens, tokens_to_add)
                     ELSE before
    IN  append_from(bm, Len(g.sequences))

\* ------------------------------------- Scheduler and the pipeline's tick
\* the block manager as the scheduler holds it
block_manager ==
    [block_table |-> block_table, refcount |-> refcount,
     free_list |-> free_list, copies |-> block_copy_map]

SetBlockManager(bm) ==
    /\ block_table' = bm.block_table
    /\ refcount' = bm.refcount
    /\ free_list' = bm.free_list
    /\ block_copy_map' = bm.copies

InitSched ==
    /\ m_requests = <<>>
    /\ m_counter = 1
    /\ block_table = BlockManager_create.block_table
    /\ refcount = BlockManager_create.refcount
    /\ free_list = BlockManager_create.free_list
    /\ block_copy_map = BlockManager_create.copies
    /\ spc = "idle"
    /\ cursor = 0
    /\ steps = 0
    /\ added = 0
    /\ op = [name |-> "create", arg |-> 0]
    /\ grp = SequenceGroup_create(0, <<>>, 0)
    /\ stream = <<>>
    /\ gpc = "unused"
    /\ to_sample = {}
    /\ preempted = FALSE
    /\ fresh = {}
    /\ ticks = 0
    /\ epc = "unused"
    /\ in_generate = FALSE
    /\ currently_finished_requests = <<>>
    /\ results = <<>>
    /\ returned = FALSE
    /\ StreamIdle

schedFrame ==
    UNCHANGED <<grp, stream, gpc, to_sample, preempted, fresh, ticks, epc, in_generate,
                currently_finished_requests, results, returned, streamVars>>

\* add_request between two ticks: the group joins the live groups in arrival order
T_add_request(n) ==
    /\ spc = "idle"
    /\ added < MaxGroups
    /\ m_requests' = Append(m_requests,
                            SequenceGroup_create(added + 1, PromptOfLen(n), m_counter))
    /\ m_counter' = m_counter + 1
    /\ added' = added + 1
    /\ op' = [name |-> "add_request", arg |-> added + 1]
    /\ UNCHANGED <<steps, schedVars, streamVars>>
    /\ schedFrame

\* a group the running pass walks
is_started(g) == g.max_content_len > 0 /\ ~has_finished(g)

\* a group the waiting pass walks
is_waiting(g) == g.max_content_len = 0 /\ ~has_finished(g) /\ ~is_scheduled(g)

StartedFrom(c) == {i \in c..Len(m_requests) : is_started(m_requests[i])}

WaitingFrom(c) == {i \in c..Len(m_requests) : is_waiting(m_requests[i])}

SetMin(S) == CHOOSE x \in S : \A y \in S : x <= y

SetMax(S) == CHOOSE x \in S : \A y \in S : x >= y

\* want = min(num_available_tokens_for_batching, max_num_batched_tokens - used)
want_tokens(g) ==
    Min(get_num_available_tokens_for_batching(g),
        pipeline_max_num_batched_tokens - ScheduledTokens(m_requests))

\* both caps leave room for the waiting group
within_caps(g) ==
    /\ want_tokens(g) > 0
    /\ ScheduledSeqs(m_requests) + num_running_seqs(g) <= pipeline_max_num_seqs

\* step 1 of schedule(): the live groups are frozen in FIFO order
T_freeze ==
    /\ spc = "idle"
    /\ steps < MaxSchedTicks
    /\ m_requests # <<>>
    /\ spc' = "running"
    /\ cursor' = 1
    /\ block_copy_map' = <<>>
    /\ op' = [name |-> "freeze", arg |-> 0]
    /\ UNCHANGED <<m_requests, m_counter, steps, added, block_table, refcount, free_list>>
    /\ schedFrame

\* running pass: the group is given want tokens (none once the budget is used up)
\* and its running sequences their slots
T_run_schedule ==
    /\ spc = "running"
    /\ StartedFrom(cursor) # {}
    /\ LET i == SetMin(StartedFrom(cursor))
           g == m_requests[i]
       IN  /\ can_append(block_manager, g, want_tokens(g))
           /\ m_requests' = [m_requests EXCEPT ![i] = schedule_tokens(g, want_tokens(g))]
           /\ SetBlockManager(append_slots(block_manager, g, want_tokens(g)))
           /\ cursor' = i + 1
           /\ op' = [name |-> "schedule_running", arg |-> g.request_id]
    /\ UNCHANGED <<m_counter, steps, added, spc>>
    /\ schedFrame

\* a preemption that evicts the first running group after the current one
T_run_preempt_first ==
    /\ spc = "running"
    /\ StartedFrom(cursor) # {}
    /\ LET i == SetMin(StartedFrom(cursor))
           g == m_requests[i]
       IN  /\ ~can_append(block_manager, g, want_tokens(g))
           /\ StartedFrom(i + 1) # {}
           /\ LET j == SetMin(StartedFrom(i + 1))
                  victim == m_requests[j]
              IN  /\ SetBlockManager(free_group(block_manager, victim))
                  /\ m_requests' = [m_requests EXCEPT ![j] =
                         preempt_tokens(victim, victim.num_processed_tokens)]
                  /\ op' = [name |-> "preempt", arg |-> victim.request_id]
    /\ UNCHANGED <<m_counter, steps, added, spc, cursor>>
    /\ schedFrame

\* preemption: the last-admitted running group after the current one is evicted
T_run_preempt_last ==
    /\ spc = "running"
    /\ StartedFrom(cursor) # {}
    /\ LET i == SetMin(StartedFrom(cursor))
           g == m_requests[i]
       IN  /\ ~can_append(block_manager, g, want_tokens(g))
           /\ StartedFrom(i + 1) # {}
           /\ LET j == SetMax(StartedFrom(i + 1))
                  victim == m_requests[j]
              IN  /\ SetBlockManager(free_group(block_manager, victim))
                  /\ m_requests' = [m_requests EXCEPT ![j] =
                         preempt_tokens(victim, victim.num_processed_tokens)]
                  /\ op' = [name |-> "preempt", arg |-> victim.request_id]
    /\ UNCHANGED <<m_counter, steps, added, spc, cursor>>
    /\ schedFrame

\* preemption reached the current group: it is evicted itself and scheduling ends
T_run_preempt_self ==
    /\ spc = "running"
    /\ StartedFrom(cursor) # {}
    /\ LET i == SetMin(StartedFrom(cursor))
           g == m_requests[i]
       IN  /\ ~can_append(block_manager, g, want_tokens(g))
           /\ StartedFrom(i + 1) = {}
           /\ SetBlockManager(free_group(block_manager, g))
           /\ m_requests' = [m_requests EXCEPT ![i] =
                  preempt_tokens(g, g.num_processed_tokens)]
           /\ op' = [name |-> "preempt", arg |-> g.request_id]
    /\ spc' = "emit"
    /\ UNCHANGED <<m_counter, steps, added, cursor>>
    /\ schedFrame

T_run_done ==
    /\ spc = "running"
    /\ StartedFrom(cursor) = {}
    /\ spc' = "waiting"
    /\ cursor' = 1
    /\ op' = [name |-> "running_pass_done", arg |-> 0]
    /\ UNCHANGED <<m_requests, m_counter, steps, added,
                   block_table, refcount, free_list, block_copy_map>>
    /\ schedFrame

\* the waiting group at the head can be admitted
admissible(g) ==
    /\ within_caps(g)
    /\ can_append(block_manager, g, want_tokens(g))

\* waiting pass: the head of the waiting groups is admitted
T_wait_admit ==
    /\ spc = "waiting"
    /\ WaitingFrom(cursor) # {}
    /\ LET i == SetMin(WaitingFrom(cursor))
           g == m_requests[i]
       IN  /\ admissible(g)
           /\ m_requests' = [m_requests EXCEPT ![i] = schedule_tokens(g, want_tokens(g))]
           /\ SetBlockManager(append_slots(block_manager, g, want_tokens(g)))
           /\ cursor' = i + 1
           /\ op' = [name |-> "admit", arg |-> g.request_id]
    /\ UNCHANGED <<m_counter, steps, added, spc>>
    /\ schedFrame

\* waiting pass: no waiting group is left, or the head cannot be admitted
T_wait_done ==
    /\ spc = "waiting"
    /\ IF WaitingFrom(cursor) = {} THEN TRUE
       ELSE ~admissible(m_requests[SetMin(WaitingFrom(cursor))])
    /\ spc' = "emit"
    /\ op' = [name |-> "waiting_pass_done", arg |-> 0]
    /\ UNCHANGED <<m_requests, m_counter, steps, added, cursor,
                   block_table, refcount, free_list, block_copy_map>>
    /\ schedFrame

\* step 4 of schedule() and the engine's copies and model step
T_emit ==
    /\ spc = "emit"
    /\ spc' = "sample"
    /\ op' = [name |-> "model_step", arg |-> Len(block_copy_map)]
    /\ UNCHANGED <<m_requests, m_counter, steps, added, cursor,
                   block_table, refcount, free_list, block_copy_map>>
    /\ schedFrame

SamplerChoices == {"go", "fork", "end"}

\* the token the mock sampler gives the k-th sequence of a group
MockTokenAt(g, k) ==
    ((g.request_id + get_generated_len(g.sequences[k]) + k) % MaxToken) + 1

\* the sampler on one group, st holding the groups, the block manager and the
\* sequence id counter: a fork goes to the block manager in lockstep, every running
\* sequence gets its token, and ends on the sampler's decision or at MaxSchedTokens
sample_group(st, i, choice) ==
    LET g == st.reqs[i]
        do_fork == choice = "fork" /\ num_total_seqs(g) < MaxSeqs
        src == SetMin(RunningIndices(g))
        forked == IF do_fork THEN fork_sequence(g, src, st.counter) ELSE g
        sampled(k) ==
            LET appended == append_token(forked.sequences[k], MockTokenAt(forked, k),
                                         LogProbOf(MockTokenAt(forked, k)))
            IN  IF choice = "end" \/ get_generated_len(appended) >= MaxSchedTokens
                THEN set_status(appended, FINISHED)
                ELSE appended
    IN  IF ~is_scheduled(g) \/ ~requires_sampling(g) THEN st
        ELSE [reqs |-> [st.reqs EXCEPT ![i] =
                  [forked EXCEPT !.sequences = [k \in DOMAIN @ |->
                      IF seq_is_running(@[k]) THEN sampled(k) ELSE @[k]]]],
              bm |-> IF do_fork THEN fork(st.bm, g.sequences[src].id, st.counter)
                     ELSE st.bm,
              counter |-> IF do_fork THEN st.counter + 1 ELSE st.counter]

RECURSIVE sample_groups(_, _, _)
sample_groups(st, n, choice) ==
    IF n = 0 THEN st
    ELSE sample_group(sample_groups(st, n - 1, choice), n, choice[n])

\* the sampler runs on every scheduled group that requires sampling
T_sample ==
    /\ spc = "sample"
    /\ \E choice \in [DOMAIN m_requests -> SamplerChoices] :
           LET st == sample_groups([reqs |-> m_requests, bm |-> block_manager,
                                    counter |-> m_counter],
                                   Len(m_requests), choice)
           IN  /\ m_requests' = st.reqs
               /\ SetBlockManager(st.bm)
               /\ m_counter' = st.counter
    /\ spc' = "finish"
    /\ op' = [name |-> "sample", arg |-> 0]
    /\ UNCHANGED <<steps, added, cursor>>
    /\ schedFrame

\* free(seq) on each sequence of each finished group
free_finished(bm, reqs) ==
    LET RECURSIVE free_from(_, _)
        free_from(b, n) ==
            IF n = 0 THEN b
            ELSE IF has_finished(reqs[n]) THEN free_from(free_group(b, reqs[n]), n - 1)
            ELSE free_from(b, n - 1)
    IN  free_from(bm, Len(reqs))

\* the end of the tick: the scheduled groups finish their iteration, the finished
\* groups release their blocks and leave the live groups
T_finish ==
    /\ spc = "finish"
    /\ LET finished == [i \in DOMAIN m_requests |->
                           IF is_scheduled(m_requests[i])
                           THEN finish_iteration(m_requests[i]) ELSE m_requests[i]]
       IN  /\ m_requests' = SelectSeq(finished, LAMBDA g : ~has_finished(g))
           /\ SetBlockManager(free_finished(block_manager, finished))
    /\ spc' = "idle"
    /\ steps' = steps + 1
    /\ op' = [name |-> "finish_tick", arg |-> 0]
    /\ UNCHANGED <<m_counter, added, cursor>>
    /\ schedFrame

NextSched ==
    \/ \E n \in 1..MaxPromptLen : T_add_request(n)
    \/ T_freeze
    \/ T_run_schedule
    \/ T_run_preempt_last
    \/ T_run_preempt_self
    \/ T_run_done
    \/ T_wait_admit
    \/ T_wait_done
    \/ T_emit
    \/ T_sample
    \/ T_finish

SpecSched == InitSched /\ [][NextSched]_vars

\* the block-table entries over all live sequences that name block b
BlockReferences(b) ==
    LET RECURSIVE Count(_, _)
        Count(table, n) ==
            IF n = 0 THEN 0 ELSE (IF table[n] = b THEN 1 ELSE 0) + Count(table, n - 1)
        RECURSIVE Sum(_)
        Sum(S) == IF S = {} THEN 0
                  ELSE LET s == CHOOSE x \in S : TRUE
                       IN  Count(block_table[s], Len(block_table[s])) + Sum(S \ {s})
    IN  Sum(DOMAIN block_table)

RECURSIVE SumOver(_, _)
SumOver(f, S) ==
    IF S = {} THEN 0
    ELSE LET s == CHOOSE x \in S : TRUE IN f[s] + SumOver(f, S \ {s})

\* --------------------- preempt_tokens in the variants of sequence_group.hpp
LIBRARY == "library"
CONTINUOUS_BATCHING == "continuous_batching"

\* preempt_tokens of continuous_batching/sequence_group.hpp and of
\* llm_engine/lib/include/sequence_group.hpp: m_max_content_len is kept as is
preempt_tokens_cb(g, num_preempt_tokens) ==
    [g EXCEPT !.num_processed_tokens = @ - num_preempt_tokens]

\* one group of either variant; gpc tells which sequence_group.hpp it is of
InitPreempt ==
    /\ \E n \in 0..MaxPromptLen :
          \/ grp = SequenceGroup_create(0, PromptOfLen(n), 1) /\ gpc = LIBRARY
          \/ grp = SequenceGroup_cb(0, PromptOfLen(n), 0) /\ gpc = CONTINUOUS_BATCHING
    /\ m_counter = 2
    /\ stream = <<>>
    /\ to_sample = {}
    /\ preempted = FALSE
    /\ fresh = {}
    /\ ticks = 0
    /\ op = [name |-> "create", arg |-> 0]
    /\ EngineIdle
    /\ SchedIdle
    /\ StreamIdle

\* preempt_tokens(k) with k <= num_processed_tokens, as the variant of the group has it
P_preempt_tokens(k) ==
    /\ k <= grp.num_processed_tokens
    /\ grp' = IF gpc = LIBRARY THEN preempt_tokens(grp, k) ELSE preempt_tokens_cb(grp, k)
    /\ op' = [name |-> "preempt_tokens", arg |-> k]
    /\ UNCHANGED <<m_counter, stream, gpc, to_sample, preempted, fresh, ticks, engineVars, schedVars, streamVars>>

NextPreempt ==
    \/ \E n \in 0..MaxSched : K_schedule_tokens(n)
    \/ K_finish_iteration
    \/ \E k \in 0..MaxContext : P_preempt_tokens(k)
    \/ \E token_id \in Tokens : K_append_token(1, token_id)
    \/ \E status \in {RUNNING, FINISHED} : K_set_status(1, status)

SpecPreempt == InitPreempt /\ [][NextPreempt]_vars

\* --------------------------- one single-sequence group over ticks, with a
\* sampler that lets the sequence run longer
\* the sampler of this group ends the sequence at this many generated tokens
MaxSingleTokens == 3

\* the sampler gives the one sequence its next token and decides whether it ends;
\* it does not fork
A_Sample(token_id, fin) ==
    /\ gpc = "sample"
    /\ 1 \in to_sample
    /\ LET appended == append_token(grp.sequences[1], token_id, LogProbOf(token_id))
           done == fin \/ get_generated_len(appended) >= MaxSingleTokens
       IN  grp' = [grp EXCEPT !.sequences[1] =
                      IF done THEN set_status(appended, FINISHED) ELSE appended]
    /\ to_sample' = to_sample \ {1}
    /\ fresh' = fresh \cup {grp.sequences[1].id}
    /\ op' = [name |-> "append_token", arg |-> 1]
    /\ UNCHANGED <<m_counter, stream, gpc, preempted, ticks, engineVars, schedVars, streamVars>>

NextSingle ==
    \/ \E k \in 1..(MaxPromptLen + MaxSingleTokens) : G_Preempt(k)
    \/ \E n \in 1..MaxPromptLen : G_Schedule(n)
    \/ G_NotScheduled
    \/ \E token_id \in Tokens, fin \in BOOLEAN : A_Sample(token_id, fin)
    \/ G_FinishIteration
    \/ G_NotifyHandle

SpecSingle == InitGroup /\ [][NextSingle]_vars

\* ------------------ get_finished_sequences in the variants of sequence_group.hpp
LLM_ENGINE_LIB == "llm_engine/lib"

\* GenerationConfig::length_penalty of the explored request
length_penalty == 1

\* std::pow on whole numbers; pow(0, 0) is 1
RECURSIVE Pow(_, _)
Pow(base, exponent) == IF exponent = 0 THEN 1 ELSE base * Pow(base, exponent - 1)

\* Sequence::get_beam_search_score: cumulative_log_prob / pow(generated_len,
\* length_penalty) in float arithmetic, kept as a fraction; a zero divisor gives an
\* infinity, or NaN when the cumulative log-prob is 0 too
get_beam_search_score(seq) ==
    LET divisor == Pow(get_generated_len(seq), length_penalty)
    IN  IF divisor # 0
        THEN [kind |-> "finite", num |-> seq.cumulative_log_prob, den |-> divisor]
        ELSE IF seq.cumulative_log_prob = 0 THEN [kind |-> "nan", num |-> 0, den |-> 1]
        ELSE IF seq.cumulative_log_prob < 0 THEN [kind |-> "-inf", num |-> 0, den |-> 1]
        ELSE [kind |-> "+inf", num |-> 0, den |-> 1]

\* a > b on floats
score_greater(a, b) ==
    /\ a.kind # "nan"
    /\ b.kind # "nan"
    /\ \/ a.kind = "+inf" /\ b.kind # "+inf"
       \/ a.kind = "finite" /\ b.kind = "-inf"
       \/ a.kind = "finite" /\ b.kind = "finite" /\ a.num * b.den > b.num * a.den

\* the sequences that hold the elements of s, each once, in some order
Perms(s) ==
    {[i \in DOMAIN s |-> s[f[i]]] :
        f \in {g \in [DOMAIN s -> DOMAIN s] : \A i, j \in DOMAIN s : i # j => g[i] # g[j]}}

\* the one-to-one maps of the positions of s
Orders(s) ==
    {f \in [DOMAIN s -> DOMAIN s] : \A i, j \in DOMAIN s : i # j => f[i] # f[j]}

\* std::sort(first, last, comp), comp given as the pairs <<i, j>> of positions with
\* comp(s[i], s[j]): some order in which no element is before one that comp puts
\* ahead of it; equal elements come in any order. With a comp that is no strict
\* weak ordering the behaviour is undefined and any order may come out
std_sort(s, comp, strict_weak) ==
    {[p \in DOMAIN s |-> s[f[p]]] :
        f \in {o \in Orders(s) :
                  strict_weak =>
                      \A i, j \in DOMAIN s : i < j => <<o[j], o[i]>> \notin comp}}

\* the loop of get_finished_sequences: the finished sequences in m_sequences order
finished_seqs(g) == SelectSeq(g.sequences, seq_has_finished)

\* SequenceGroup::get_finished_sequences of the library: sorted by beam search score
get_finished_sequences(g) ==
    LET finished == finished_seqs(g)
    IN  std_sort(finished,
                 {<<s1, s2>> \in (DOMAIN finished) \X (DOMAIN finished) :
                     score_greater(get_beam_search_score(finished[s1]),
                                   get_beam_search_score(finished[s2]))},
                 \A i \in DOMAIN finished :
                     get_beam_search_score(finished[i]).kind # "nan")

\* SequenceGroup::get_finished_sequences of llm_engine/lib: sorted by
\* get_cumulative_log_probs
get_finished_sequences_lib(g) ==
    LET finished == finished_seqs(g)
    IN  std_sort(finished,
                 {<<s1, s2>> \in (DOMAIN finished) \X (DOMAIN finished) :
                     finished[s1].cumulative_log_prob > finished[s2].cumulative_log_prob},
                 TRUE)

\* Sequence::create() of llm_engine/lib: no parent id, the id from the static counter
Sequence_lib(id) ==
    [id |-> id, generated_ids |-> <<>>, status |-> RUNNING, cumulative_log_prob |-> 0]

\* Sequence::fork of llm_engine/lib: the copy takes a new id
Sequence_lib_fork(seq, id) == [seq EXCEPT !.id = id]

\* SequenceGroup(request_id, input_ids, sampling_params) of llm_engine/lib
SequenceGroup_lib(request_id, input_ids, first_seq_id) ==
    [request_id |-> request_id,
     sequences |-> <<Sequence_lib(first_seq_id)>>,
     prompt_ids |-> input_ids,
     num_processed_tokens |-> 0,
     num_scheduled_tokens |-> 0,
     max_content_len |-> 0]

\* one group of either variant; gpc tells which sequence_group.hpp it is of
InitFinished ==
    /\ \/ grp = SequenceGroup_create(0, PromptOfLen(1), 1) /\ gpc = LIBRARY /\ m_counter = 2
       \/ grp = SequenceGroup_lib(0, PromptOfLen(1), 0) /\ gpc = LLM_ENGINE_LIB /\ m_counter = 1
    /\ stream = <<>>
    /\ to_sample = {}
    /\ preempted = FALSE
    /\ fresh = {}
    /\ ticks = 0
    /\ op = [name |-> "create", arg |-> 0]
    /\ EngineIdle
    /\ SchedIdle
    /\ StreamIdle

\* fork_sequence of the group's variant
F_fork_sequence(i) ==
    /\ i \in DOMAIN grp.sequences
    /\ num_total_seqs(grp) < MaxSeqs
    /\ GroupTokens(grp) + get_generated_len(grp.sequences[i]) <= MaxGroupTokens
    /\ grp' = IF gpc = LIBRARY THEN fork_sequence(grp, i, m_counter)
              ELSE [grp EXCEPT !.sequences =
                       Append(@, Sequence_lib_fork(@[i], m_counter))]
    /\ m_counter' = m_counter + 1
    /\ op' = [name |-> "fork_sequence", arg |-> i]
    /\ UNCHANGED <<stream, gpc, to_sample, preempted, fresh, ticks, engineVars, schedVars, streamVars>>

\* get_finished_sequences of the group's variant; returned holds what it returned
F_get_finished_sequences ==
    /\ returned' \in (IF gpc = LIBRARY THEN get_finished_sequences(grp)
                       ELSE get_finished_sequences_lib(grp))
    /\ op' = [name |-> "get_finished_sequences", arg |-> 0]
    /\ UNCHANGED <<grp, m_counter, stream, gpc, to_sample, preempted, fresh, ticks,
                   m_requests, epc, in_generate, currently_finished_requests, results,
                   steps, added, schedVars, streamVars>>

NextFinished ==
    \/ \E i \in 1..MaxSeqs, token_id \in Tokens : S_append_token(i, token_id)
    \/ \E i \in 1..MaxSeqs : S_set_status(i, FINISHED)
    \/ \E i \in 1..MaxSeqs : F_fork_sequence(i)
    \/ F_get_finished_sequences

SpecFinished == InitFinished /\ [][NextFinished]_vars

\* ----------------------- remove_sequence in the variants of sequence_group.hpp
\* sequences one group is grown to
MaxRemoveSeqs == 3
\* sequence ids handed out before the growth stops
MaxSequenceId == 3
\* remove_sequence calls explored on one group (counted in ticks)
MaxRemoves == 3

RECURSIVE Rejected(_, _, _)
\* the elements of s from position p on that are not at a position in pred
Rejected(s, pred, p) ==
    IF p > Len(s) THEN <<>>
    ELSE (IF p \in pred THEN <<>> ELSE <<s[p]>>) \o Rejected(s, pred, p + 1)

\* std::remove_if(first, last, pred) on the vector s, pred given as the positions
\* it accepts: the elements pred rejects are move-assigned to the front in their
\* order; behind new_end an element pred accepts is as it was and any other one
\* is the source of a move assignment, moved_from[p]
remove_if(s, pred, moved_from) ==
    LET kept == Rejected(s, pred, 1)
    IN  [range |-> [p \in DOMAIN s |->
                       IF p <= Len(kept) THEN kept[p]
                       ELSE IF p \in pred THEN s[p] ELSE moved_from[p]],
         new_end |-> Len(kept) + 1]

\* std::vector::erase(pos): the one element at pos goes
erase(s, pos) == [p \in 1..(Len(s) - 1) |-> IF p < pos THEN s[p] ELSE s[p + 1]]

\* a Sequence::Ptr that was the source of a move assignment holds nothing
NullPtr == [id |-> -1, generated_ids |-> <<>>, status |-> "null", cumulative_log_prob |-> 0]

\* a Sequence (by value) that was the source of the implicit move assignment: the
\* token vector is taken, the scalars are copied
MovedFromSequence(seq) == [seq EXCEPT !.generated_ids = <<>>]

\* SequenceGroup::remove_sequence of the library and of llm_engine/lib: remove_if,
\* OPENVINO_ASSERT(remove_it != end), erase(remove_it). ok is FALSE when the
\* assertion throws
remove_sequence(g, sequence_id) ==
    LET r == remove_if(g.sequences,
                       {p \in DOMAIN g.sequences : g.sequences[p].id = sequence_id},
                       [p \in DOMAIN g.sequences |-> NullPtr])
    IN  IF r.new_end = Len(g.sequences) + 1
        THEN [ok |-> FALSE, g |-> [g EXCEPT !.sequences = r.range]]
        ELSE [ok |-> TRUE, g |-> [g EXCEPT !.sequences = erase(r.range, r.new_end)]]

\* SequenceGroup::remove_sequence of continuous_batching/sequence_group.hpp: the
\* remove_if is the operand of the assertion and nothing is erased
remove_sequence_cb(g, sequence_id) ==
    LET r == remove_if(g.sequences,
                       {p \in DOMAIN g.sequences : g.sequences[p].id = sequence_id},
                       [p \in DOMAIN g.sequences |-> MovedFromSequence(g.sequences[p])])
    IN  [ok |-> r.new_end # Len(g.sequences) + 1, g |-> [g EXCEPT !.sequences = r.range]]

\* SequenceGroup::add_sequence of continuous_batching/sequence_group.hpp
add_sequence(g, sequence) == [g EXCEPT !.sequences = Append(@, sequence)]

InitRemove ==
    /\ \/ grp = SequenceGroup_create(0, PromptOfLen(1), 1) /\ gpc = LIBRARY /\ m_counter = 2
       \/ grp = SequenceGroup_cb(0, PromptOfLen(1), 0) /\ gpc = CONTINUOUS_BATCHING /\ m_counter = 1
       \/ grp = SequenceGroup_lib(0, PromptOfLen(1), 0) /\ gpc = LLM_ENGINE_LIB /\ m_counter = 1
    /\ stream = <<>>
    /\ to_sample = {}
    /\ preempted = FALSE
    /\ fresh = {}
    /\ ticks = 0
    /\ op = [name |-> "create", arg |-> 0]
    /\ EngineIdle
    /\ SchedIdle
    /\ StreamIdle

\* one more sequence in the group: a fork of sequence i, or for the variant without
\* fork_sequence a new Sequence handed to add_sequence
V_add_sequence(i) ==
    /\ i \in DOMAIN grp.sequences
    /\ num_total_seqs(grp) < MaxRemoveSeqs
    /\ m_counter <= MaxSequenceId
    /\ grp' = IF gpc = LIBRARY THEN fork_sequence(grp, i, m_counter)
              ELSE IF gpc = LLM_ENGINE_LIB
                   THEN [grp EXCEPT !.sequences =
                            Append(@, Sequence_lib_fork(@[i], m_counter))]
                   ELSE add_sequence(grp, Sequence_cb(m_counter))
    /\ m_counter' = m_counter + 1
    /\ op' = [name |-> "add_sequence", arg |-> i]
    /\ UNCHANGED <<stream, gpc, to_sample, preempted, fresh, ticks, engineVars, schedVars, streamVars>>

\* remove_sequence(sequence_id) of the group's variant; a throwing call is seen
\* in op
V_remove_sequence(sequence_id) ==
    LET r == IF gpc = CONTINUOUS_BATCHING THEN remove_sequence_cb(grp, sequence_id)
             ELSE remove_sequence(grp, sequence_id)
    IN  /\ ticks < MaxRemoves
        /\ ticks' = ticks + 1
        /\ grp' = r.g
        /\ op' = [name |-> IF r.ok THEN "remove_sequence" ELSE "remove_sequence throws",
                  arg |-> sequence_id]
        /\ UNCHANGED <<m_counter, stream, gpc, to_sample, preempted, fresh, engineVars, schedVars, streamVars>>

NextRemove ==
    \/ \E i \in 1..MaxRemoveSeqs : S_append_token(i, 1)
    \/ \E i \in 1..MaxRemoveSeqs : V_add_sequence(i)
    \/ \E sequence_id \in 0..(MaxSequenceId + 1) : V_remove_sequence(sequence_id)

SpecRemove == InitRemove /\ [][NextRemove]_vars

\* ------------------------------------ Generation Stream and its handle
\* iterations the engine thread pushes for one request
MaxPushes == 3

\* GenerationStream::push: the outputs of one iteration join the queue at its end
push(queue, outputs) == Append(queue, outputs)

\* GenerationHandle::can_read: an iteration is waiting in the queue
can_read(queue) == queue # <<>>

\* a handle that reports finished as soon as finish() was called
generation_finished_early(queue, finished) == finished

\* GenerationHandle::generation_finished: finish() was called and nothing is left to read
generation_finished(queue, finished) == finished /\ queue = <<>>

InitStream ==
    /\ grp = SequenceGroup_create(0, PromptOfLen(1), 1)
    /\ m_counter = 2
    /\ stream = <<>>
    /\ gpc = "unused"
    /\ to_sample = {}
    /\ preempted = FALSE
    /\ fresh = {}
    /\ ticks = 0
    /\ op = [name |-> "create", arg |-> 0]
    /\ EngineIdle
    /\ SchedIdle
    /\ m_output_queue = <<>>
    /\ m_generation_finished = FALSE
    /\ observed = <<>>
    /\ cpc = "can_read"

streamFrame == UNCHANGED <<m_counter, gpc, to_sample, preempted, fresh, ticks, engineVars, schedVars>>

\* engine thread: the sequence gets a token and notify_handle pushes the iteration
H_notify_handle(token_id) ==
    /\ ~m_generation_finished
    /\ Len(stream) < MaxPushes
    /\ grp' = [grp EXCEPT !.sequences[1] = append_token(@, token_id, LogProbOf(token_id))]
    /\ m_output_queue' = push(m_output_queue, notify_outputs(grp'))
    /\ stream' = Append(stream, notify_outputs(grp'))
    /\ op' = [name |-> "notify_handle", arg |-> token_id]
    /\ streamFrame
    /\ UNCHANGED <<m_generation_finished, observed, cpc>>

\* engine thread: finish_generation_stream
H_finish_generation_stream ==
    /\ ~m_generation_finished
    /\ m_generation_finished' = TRUE
    /\ op' = [name |-> "finish_generation_stream", arg |-> 0]
    /\ streamFrame
    /\ UNCHANGED <<grp, stream, m_output_queue, observed, cpc>>

\* caller thread: asks can_read
H_can_read ==
    /\ cpc = "can_read"
    /\ cpc' = IF can_read(m_output_queue) THEN "read" ELSE "generation_finished"
    /\ op' = [name |-> "can_read", arg |-> 0]
    /\ streamFrame
    /\ UNCHANGED <<grp, stream, m_output_queue, m_generation_finished, observed>>

\* caller thread: read takes the oldest iteration out of the queue
H_read ==
    /\ cpc = "read"
    /\ observed' = Append(observed, Head(m_output_queue))
    /\ m_output_queue' = Tail(m_output_queue)
    /\ cpc' = "can_read"
    /\ op' = [name |-> "read", arg |-> 0]
    /\ streamFrame
    /\ UNCHANGED <<grp, stream, m_generation_finished>>

\* caller thread: nothing to read, asks whether the generation has finished
H_generation_finished ==
    /\ cpc = "generation_finished"
    /\ cpc' = IF generation_finished(m_output_queue, m_generation_finished)
              THEN "done" ELSE "can_read"
    /\ op' = [name |-> "generation_finished", arg |-> 0]
    /\ streamFrame
    /\ UNCHANGED <<grp, stream, m_output_queue, m_generation_finished, observed>>

NextStream ==
    \/ \E token_id \in Tokens : H_notify_handle(token_id)
    \/ H_finish_generation_stream
    \/ H_can_read
    \/ H_read
    \/ H_generation_finished

SpecStream == InitStream /\ [][NextStream]_vars

\* ------------------------------------------------------------- properties

\* C1: when a group has ended, the tokens notify_handle pushed for each of its
\* sequences, put one after the other, are that sequence's generated_ids (for a
\* forked sequence: the part it generated after the fork): no token is emitted twice.
C1_NoDoubleEmission ==
    (gpc = "schedule" /\ has_finished(grp)) =>
        \A i \in DOMAIN grp.sequences :
            LET s == grp.sequences[i]
                pushed == StreamTokens(stream, s.id)
            IN  /\ IsSuffix(pushed, s.generated_ids)
                /\ (s.parent_id = 0 => pushed = s.generated_ids)

\* C4: max_content_len of a group never decreases, whatever is called on the group.
C4_MaxContentLenNeverDecreases ==
    [][grp'.max_content_len >= grp.max_content_len]_vars

\* C5: a sequence that is Finished keeps its generated_ids and its cumulative
\* log-prob in every later step.
C5_FinishedIsFrozen ==
    [][\A i \in DOMAIN grp.sequences :
          seq_has_finished(grp.sequences[i]) =>
              /\ i \in DOMAIN grp'.sequences
              /\ grp'.sequences[i].generated_ids = grp.sequences[i].generated_ids
              /\ grp'.sequences[i].cumulative_log_prob = grp.sequences[i].cumulative_log_prob]_vars

\* C6: num_processed_tokens <= max_content_len in every state of a group, under any
\* calls of schedule_tokens, finish_iteration and preempt_tokens(k), k <= num_processed_tokens.
C6_ProcessedAtMostMaxContentLen ==
    grp.num_processed_tokens <= grp.max_content_len

\* C6 witness: a preemption has taken tokens away and processed tokens remain.
C6_Witness ==
    /\ op.name = "preempt_tokens"
    /\ op.arg >= 1
    /\ grp.num_processed_tokens >= 1
    /\ grp.num_processed_tokens <= grp.max_content_len

\* C9: fork_sequence(src) adds one child carrying the source's generated_ids, status
\* and cumulative log-prob, with parent_id = the source's id and a different id of its
\* own, and leaves the other sequences as they were; append_token on one sequence
\* changes no other sequence of the group.
C9_ForkCopiesAndIsolates ==
    [][/\ (op'.name = "fork_sequence" /\ grp' # grp) =>
              LET src == grp.sequences[op'.arg]
                  child == grp'.sequences[Len(grp'.sequences)]
              IN  /\ Len(grp'.sequences) = Len(grp.sequences) + 1
                  /\ \A j \in DOMAIN grp.sequences : grp'.sequences[j] = grp.sequences[j]
                  /\ child.generated_ids = src.generated_ids
                  /\ child.status = src.status
                  /\ child.cumulative_log_prob = src.cumulative_log_prob
                  /\ child.parent_id = src.id
                  /\ child.id # src.id
       /\ (op'.name = "append_token" /\ grp' # grp) =>
              /\ Len(grp'.sequences) = Len(grp.sequences)
              /\ \A j \in DOMAIN grp.sequences :
                    j # op'.arg => grp'.sequences[j] = grp.sequences[j]]_vars

\* C9 witness: a child got a token of its own after the fork and its parent did not.
C9_Witness ==
    /\ op.name = "append_token"
    /\ Len(grp.sequences) = 2
    /\ op.arg = 2
    /\ grp.sequences[2].parent_id = grp.sequences[1].id
    /\ Len(grp.sequences[1].generated_ids) >= 1
    /\ Len(grp.sequences[2].generated_ids) = Len(grp.sequences[1].generated_ids) + 1

\* C2: _free_finished_groups leaves in the request list exactly the groups that were
\* not finished, in their order: after step() no finished group is left in the list
\* and every unfinished group is still there, unchanged.
C2_FinishedGroupsRemoved ==
    [][op'.name = "_free_finished_groups" =>
          m_requests' = SelectSeq(m_requests, LAMBDA g : ~has_finished(g))]_vars

\* C3: the list generate returns is in ascending order of m_request_id (results with
\* the same id are next to each other), whatever order the requests finished in.
C3_GenerateResultsAscending ==
    op.name = "generate returns" =>
        \A i, j \in DOMAIN returned :
            i < j => returned[i].m_request_id <= returned[j].m_request_id

\* C3 witness: generate returned after a request with a larger id had finished in an
\* earlier tick than a request with a smaller id.
C3_Witness ==
    /\ op.name = "generate returns"
    /\ \E i, j \in DOMAIN results :
          i < j /\ results[i].m_request_id > results[j].m_request_id
    /\ \E i, j \in DOMAIN returned : returned[i].m_request_id # returned[j].m_request_id

\* C10: the group add_request has just appended holds one sequence without parent
\* and without generated tokens, its prompt ids are the input ids, and its three
\* counters are 0.
C10_AddRequestCreatesGroup ==
    op.name = "add_request" =>
        LET g == m_requests[Len(m_requests)]
        IN  /\ Len(g.sequences) = 1
            /\ ("parent_id" \in DOMAIN g.sequences[1] => g.sequences[1].parent_id = 0)
            /\ g.sequences[1].generated_ids = <<>>
            /\ g.prompt_ids = op.arg
            /\ get_prompt_len(g) = Len(op.arg)
            /\ g.num_processed_tokens = 0
            /\ g.num_scheduled_tokens = 0
            /\ g.max_content_len = 0

\* C7: in every tick the num_scheduled_tokens of the scheduled groups sum to at most
\* max_num_batched_tokens, and the sequences scheduled number at most max_num_seqs
C7_BudgetRespect ==
    spc \in {"running", "waiting", "emit", "sample"} =>
        /\ ScheduledTokens(m_requests) <= pipeline_max_num_batched_tokens
        /\ ScheduledSeqs(m_requests) <= pipeline_max_num_seqs

\* C8: after every Block Manager operation and at the end of every tick the
\* refcounts sum to the number of block-table entries over all live sequences,
\* and a block is on the free list iff its refcount is 0
C8_RefcountConservation ==
    spc # "unused" =>
        /\ SumOver(refcount, Blocks)
               = SumOver([s \in DOMAIN block_table |-> Len(block_table[s])],
                         DOMAIN block_table)
        /\ \A b \in Blocks :
               /\ refcount[b] = BlockReferences(b)
               /\ (\E k \in DOMAIN free_list : free_list[k] = b) <=> refcount[b] = 0

\* a forked sequence has written: its shared last block was copied to a fresh one
C8_Witness ==
    /\ spc = "emit"
    /\ block_copy_map # <<>>
    /\ \E s \in DOMAIN block_table, t \in DOMAIN block_table :
           s # t /\ block_table[s] # <<>> /\ block_table[t] # <<>>
    /\ \E b \in Blocks : refcount[b] = 0

\* C11 (as stated): sequence ids are unique, strictly increasing in creation
\* order, and no sequence ever has seq_id 0
C11_SequenceIdsNeverZero ==
    epc # "unused" => 0 \notin SequenceIds(m_requests)

\* C11 (amended): every sequence created gets the value of the static counter,
\* which is greater than the id of every sequence created before it, and the
\* counter then grows by one; the engine's counter starts at 0, so ids may be 0
C11_SequenceIdsIncrease ==
    [][epc # "unused" =>
          /\ \A id \in SequenceIds(m_requests) : id < m_counter
          /\ m_counter' >= m_counter
          /\ SequenceIds(m_requests') \ SequenceIds(m_requests)
                 = m_counter..(m_counter' - 1)]_vars

\* two sequences have been created, the first with id 0 and the second with id 1
C11_Witness ==
    /\ epc # "unused"
    /\ m_counter >= 2
    /\ {0, 1} \subseteq SequenceIds(m_requests)

\* C12: a GenerationResult made of a finished group lists the generated_ids of
\* each Finished sequence of the group exactly once, in order of non-increasing
\* beam-search score
C12_ResultSortedByScore ==
    (gpc = "result" /\ op.name = "from_sequence_group") =>
        LET result == currently_finished_requests[1]
            finished == {i \in DOMAIN grp.sequences : seq_has_finished(grp.sequences[i])}
            n == Len(result.m_generation_ids)
        IN  \E p \in [1..n -> finished] :
                /\ \A i \in finished : \E k \in 1..n : p[k] = i
                /\ \A k, l \in 1..n : k # l => p[k] # p[l]
                /\ \A k \in 1..n :
                       result.m_generation_ids[k] = grp.sequences[p[k]].generated_ids
                /\ \A k, l \in 1..n : k < l =>
                       get_beam_search_scope(grp.sequences[p[k]])
                           >= get_beam_search_scope(grp.sequences[p[l]])

\* C13: add_request with the request_id of a live request is rejected and leaves
\* the request list unchanged, so the request ids of the live groups are pairwise
\* distinct in every reachable state
C13_LiveRequestIdsDistinct ==
    epc # "unused" =>
        \A i, j \in DOMAIN m_requests :
            (i # j /\ ~has_finished(m_requests[i]) /\ ~has_finished(m_requests[j]))
                => m_requests[i].request_id # m_requests[j].request_id

GeneratedIds(reqs) ==
    [i \in DOMAIN reqs |->
        [j \in DOMAIN reqs[i].sequences |-> reqs[i].sequences[j].generated_ids]]

\* the counters of the groups of a request list
ProcessedTokens(reqs) == [i \in DOMAIN reqs |-> reqs[i].num_processed_tokens]

C19_FinishedIffAllFinished ==
    \A i \in DOMAIN m_requests :
        LET g == m_requests[i]
        IN  /\ Len(g.sequences) >= 1
            /\ has_finished(g) <=>
                   (/\ Len(g.sequences) >= 1
                    /\ \A j \in DOMAIN g.sequences : seq_has_finished(g.sequences[j]))

\* h is g with num_processed_tokens and max_content_len lowered by k and the
\* generated_ids of every sequence shortened by min(k, generated_len) from the tail
RolledBackAndTrimmed(g, h, k) ==
    h = [g EXCEPT !.num_processed_tokens = @ - k,
                  !.max_content_len = @ - k,
                  !.sequences = [i \in DOMAIN @ |->
                      [@[i] EXCEPT !.generated_ids =
                          SubSeq(@, 1, Len(@) - Min(k, Len(@)))]]]

\* h is g with num_processed_tokens lowered by k
RolledBackOnly(g, h, k) == h = [g EXCEPT !.num_processed_tokens = @ - k]

\* C20 as stated: preempt_tokens(k) with k <= num_processed_tokens lowers
\* num_processed_tokens and max_content_len by k, shortens the generated_ids of each
\* sequence by min(k, generated_len) from the tail and changes nothing else
C20_PreemptRollsBackAndTrims ==
    [][op'.name = "preempt_tokens" => RolledBackAndTrimmed(grp, grp', op'.arg)]_vars

\* C20 amended: the library's preempt_tokens(k) does all of that; the preempt_tokens
\* of the two other variants lowers num_processed_tokens by k and changes nothing else
C20_PreemptByVariant ==
    [][op'.name = "preempt_tokens" =>
          IF gpc = LIBRARY
          THEN RolledBackAndTrimmed(grp, grp', op'.arg)
          ELSE RolledBackOnly(grp, grp', op'.arg)]_vars

\* a group of the continuous_batching variant was preempted and kept its
\* generated tokens and its max_content_len
C20_Witness ==
    /\ gpc = CONTINUOUS_BATCHING
    /\ op.name = "preempt_tokens"
    /\ op.arg > 0
    /\ get_generated_len(grp.sequences[1]) > 0
    /\ grp.max_content_len > grp.num_processed_tokens

\* C21: in a tick in which the group is scheduled with n > 0 tokens and not preempted,
\* schedule_tokens(n) and the sampler leave num_processed_tokens alone and
\* finish_iteration raises it by exactly n (so it grows), sets max_content_len to the
\* larger of its old value and the new num_processed_tokens, and resets
\* num_scheduled_tokens to 0
C21_FinishIterationCommits ==
    [][/\ op'.name = "schedule_tokens" =>
              /\ grp'.num_scheduled_tokens = op'.arg
              /\ grp'.num_processed_tokens = grp.num_processed_tokens
       /\ op'.name \in {"fork_sequence", "append_token"} =>
              /\ grp'.num_scheduled_tokens = grp.num_scheduled_tokens
              /\ grp'.num_processed_tokens = grp.num_processed_tokens
       /\ op'.name = "finish_iteration" =>
              LET n == grp.num_scheduled_tokens
              IN  /\ grp'.num_processed_tokens = grp.num_processed_tokens + n
                  /\ n > 0 => grp'.num_processed_tokens > grp.num_processed_tokens
                  /\ grp'.max_content_len =
                         Max(grp.max_content_len, grp'.num_processed_tokens)
                  /\ grp'.num_scheduled_tokens = 0
                  /\ grp'.sequences = grp.sequences]_vars

\* finish_iteration has just committed the tokens of a tick in which the group was
\* not preempted, on top of tokens of an earlier tick
C21_Witness ==
    /\ op.name = "finish_iteration"
    /\ ~preempted
    /\ ticks >= 1
    /\ grp.num_processed_tokens >= 2
    /\ grp.num_scheduled_tokens = 0

\* C22: for an unfinished group with num_scheduled_tokens = 0,
\* get_num_available_tokens_for_batching is max(1, max(prompt_len, max_content_len) -
\* num_processed_tokens) in the integers: the unsigned subtraction does not wrap and
\* the result is at least 1
C22_AvailableTokensAtLeastOne ==
    (~has_finished(grp) /\ grp.num_scheduled_tokens = 0) =>
        LET longest == Max(get_prompt_len(grp), grp.max_content_len)
        IN  /\ longest >= grp.num_processed_tokens
            /\ get_num_available_tokens_for_batching(grp) =
                   Max(1, longest - grp.num_processed_tokens)
            /\ get_num_available_tokens_for_batching(grp) >= 1

\* an unfinished group that has processed all it has: the difference is 0 and the
\* function answers 1
C22_Witness ==
    /\ ~has_finished(grp)
    /\ grp.num_scheduled_tokens = 0
    /\ grp.num_processed_tokens > 0
    /\ grp.num_processed_tokens = Max(get_prompt_len(grp), grp.max_content_len)
    /\ get_num_available_tokens_for_batching(grp) = 1

\* the position in m_requests of the group with this request id
IndexOfRequest(request_id) ==
    CHOOSE i \in DOMAIN m_requests : m_requests[i].request_id = request_id

\* C23: a preemption happens only when the running group being scheduled cannot get
\* its blocks; the victim is the last running group in admission order, never one
\* admitted before the group being scheduled; it is preempted with
\* preempt_tokens(num_processed_tokens) and no other group changes; when the victim is
\* the group being scheduled itself, the scheduling of the tick ends
C23_PreemptionIsLifo ==
    [][op'.name = "preempt" =>
          LET i == SetMin(StartedFrom(cursor))
              j == IndexOfRequest(op'.arg)
          IN  /\ spc = "running"
              /\ ~can_append(block_manager, m_requests[i], want_tokens(m_requests[i]))
              /\ j >= i
              /\ j = SetMax(StartedFrom(cursor))
              /\ m_requests' = [m_requests EXCEPT ![j] =
                     preempt_tokens(@, m_requests[j].num_processed_tokens)]
              /\ m_requests'[j].num_processed_tokens = 0
              /\ j > i => spc' = "running" /\ cursor' = cursor
              /\ j = i => spc' = "emit" /\ ~is_scheduled(m_requests'[i])]_vars

\* a victim was taken from the end of the running groups while another running
\* group stood between it and the group being scheduled
C23_Witness ==
    /\ spc = "running"
    /\ op.name = "preempt"
    /\ StartedFrom(cursor) # {}
    /\ \E k, j \in DOMAIN m_requests :
           /\ SetMin(StartedFrom(cursor)) < k
           /\ k < j
           /\ is_started(m_requests[k])
           /\ m_requests[j].request_id = op.arg

\* a >= b on floats
score_at_least(a, b) ==
    /\ a.kind # "nan"
    /\ b.kind # "nan"
    /\ ~score_greater(b, a)

\* C24: get_finished_sequences returns exactly the Finished sequences of the group,
\* each once, in an order of non-increasing beam-search score, and leaves the group
\* as it was
C24_FinishedSequencesByScore ==
    [][op'.name = "get_finished_sequences" =>
          /\ grp' = grp
          /\ returned' \in Perms(finished_seqs(grp))
          /\ \A i, j \in DOMAIN returned' :
                 i < j => score_at_least(get_beam_search_score(returned'[i]),
                                         get_beam_search_score(returned'[j]))]_vars

\* C25: every request added to the engine is reported by step() in one tick only.
\* Stated by counting, so that two requests added with one id are not taken for a
\* repeated report: the results generate has gathered from its step() calls, and
\* the list it returns, never hold more entries than requests were added
C25_EachRequestReportedOnce ==
    /\ in_generate => Len(results) <= added
    /\ op.name = "generate returns" => Len(returned) <= added

\* the group holds a sequence with this id
HoldsSequence(g, sequence_id) == \E i \in DOMAIN g.sequences : g.sequences[i].id = sequence_id

\* C26: remove_sequence(id) on a group that holds a sequence with that id removes
\* that sequence and no other (one sequence fewer, the others as they were and in
\* their order); on a group without it the call throws and the group is unchanged
C26_RemoveSequenceRemovesOne ==
    [][op'.name \in {"remove_sequence", "remove_sequence throws"} =>
          IF HoldsSequence(grp, op'.arg)
          THEN /\ op'.name = "remove_sequence"
               /\ num_total_seqs(grp') = num_total_seqs(grp) - 1
               /\ grp' = [grp EXCEPT !.sequences =
                              SelectSeq(@, LAMBDA seq : seq.id # op'.arg)]
          ELSE /\ op'.name = "remove_sequence throws"
               /\ grp' = grp]_vars

RECURSIVE SumLogProbs(_)
\* the sum of the log-probs the sampler reported with these tokens
SumLogProbs(token_ids) ==
    IF token_ids = <<>> THEN 0
    ELSE LogProbOf(Head(token_ids)) + SumLogProbs(Tail(token_ids))

\* C27: in every reachable state the cumulative_log_prob of every sequence is the
\* sum of the log-probs of the tokens now in its generated_ids, tokens trimmed by
\* remove_tokens or preempt_tokens no longer being counted
C27_LogProbOfCurrentTokens ==
    \A i \in DOMAIN grp.sequences :
        grp.sequences[i].cumulative_log_prob = SumLogProbs(grp.sequences[i].generated_ids)

C29_CountersMatchTokens ==
    (gpc = "schedule" /\ num_total_seqs(grp) = 1 /\ get_prompt_len(grp) >= 1) =>
        LET generated_len == get_generated_len(grp.sequences[1])
        IN  /\ generated_len > 0 =>
                  grp.num_processed_tokens = get_prompt_len(grp) + generated_len - 1
            /\ generated_len = 0 => grp.num_processed_tokens < get_prompt_len(grp)

\* between ticks, a preemption has trimmed some of the generated tokens of the
\* sequence and left others
C29_Witness ==
    /\ gpc = "schedule"
    /\ num_total_seqs(grp) = 1
    /\ op.name = "preempt_tokens"
    /\ op.arg > 0
    /\ get_generated_len(grp.sequences[1]) > 0
    /\ grp.num_processed_tokens = get_prompt_len(grp) + get_generated_len(grp.sequences[1]) - 1

====
